---- MODULE Spec2Model ----
(***************************************************************************)
(* State-machine model of the IndigenousAccess map overlays:                *)
(*   MapHost (IndigenousAccessMaps, lib/map-core.js),                        *)
(*   the hazards adapter (IAHazardLayers, lib/map-core.js),                  *)
(*   the river-gage adapter (IARivers, lib/rivers.js),                       *)
(*   the flood-zone adapter (IAFloodZones),                                  *)
(*   the tribal-boundaries adapter (IATribalBoundaries).                     *)
(* JavaScript runs on one thread: every action below is one run-to-         *)
(* completion piece of a handler, from its entry or an await to the next     *)
(* await or its return.  Layer objects, timers and fetches are numbered in   *)
(* creation order; 0 stands for null.                                        *)
(***************************************************************************)
EXTENDS Integers, Sequences, FiniteSets, TLC

\* ---------------------------------------------------------------- bounds
MaxLayers == 3      \* layer objects created in one behaviour
MaxFetch == 3       \* requests started by the hazards and river modules together
MaxTimers == 2      \* interval timers created by the refresh adapters together
MaxControl == 3     \* entries held by the layer control
MaxQuery == 2        \* flood-zone queries issued in one behaviour
MaxHandlers == 2    \* moveend handlers registered on the map
MaxClicks == 2      \* territory clicks reported to the onFeatureClick handler
MaxTime == 1        \* last instant of the page's clock
MaxAlerts == 2      \* alert features in one NWS response
MaxSeries == 2      \* time series in one USGS response
MaxZones == 3       \* zone codes in one zoneFilter

\* ------------------------------------------------------------- constants
Threshold == 10     \* boundsEqual threshold 0.01 degree, in 1/1000 degree

RefreshAdapters == {"hazards", "rivers"}

\* overlay display names used by the adapters
OverlayName(a) == IF a = "hazards" THEN "Weather Alerts" ELSE "River Gages"

OverlayNames == {"Weather Alerts", "River Gages", "Streams",
                 "FEMA Flood Zones", "Tribal Boundaries"}

\* viewports the user can settle on: <<west, south, east, north>>
Views == { <<0, 0, 1000, 1000>>, <<9, 9, 1009, 1009>>, <<10, 0, 1000, 1000>>,
           <<0, -10, 1000, 1000>>, <<0, 0, 990, 1000>>, <<0, 0, 1000, 1011>> }

NoBounds == <<>>
InitialView == <<0, 0, 1000, 1000>>

\* REGIONS: centre in 1/1000 degree and zoom
Regions == {"pnw", "wa", "or", "id", "mt", "ak"}
REGIONS == [r \in Regions |->
    CASE r = "pnw" -> [lat |-> 47000, lon |-> -120500, zoom |-> 6]
      [] r = "wa" -> [lat |-> 47400, lon |-> -120500, zoom |-> 7]
      [] r = "or" -> [lat |-> 43800, lon |-> -120500, zoom |-> 7]
      [] r = "id" -> [lat |-> 44400, lon |-> -114700, zoom |-> 7]
      [] r = "mt" -> [lat |-> 46900, lon |-> -110400, zoom |-> 7]
      [] r = "ak" -> [lat |-> 64200, lon |-> -152500, zoom |-> 4]]

\* property names every object literal inherits from Object.prototype: a
\* lookup of one of them in REGIONS or _overlayLayers yields a truthy value
\* that is neither a region nor a layer
ProtoKeys == {"constructor", "__proto__"}

\* strings the page passes as region codes, and String.toLowerCase on them
RegionCodes == {"wa", "WA", "or", "mt", "ak", "zz", "constructor"}
ToLower == [c \in RegionCodes |-> IF c = "WA" THEN "wa" ELSE c]

\* the `region` URL parameter: absent, or one of these strings
NoParam == "absent"
RegionParams == Regions \cup {NoParam, "WA", "zz", "constructor"}

\* bounds of the view with the given centre and zoom, in the frame of Views:
\* DEFAULT_CONFIG (centre 47.5, -120.5, zoom 7) is InitialView, and one zoom
\* level less doubles the span
ViewAt(lat, lon, zoom) ==
    LET half == 500 * 2 ^ (7 - zoom)
        x == 500 + (lon + 120500)
        y == 500 + (lat - 47500)
    IN <<x - half, y - half, x + half, y + half>>

RegionView(r) == ViewAt(REGIONS[r].lat, REGIONS[r].lon, REGIONS[r].zoom)

\* tribal territories of the loaded data, named by their code, and the
\* viewport fitBounds settles on for each
Tribes == {"lummi", "yakama"}
TribeBounds == [t \in Tribes |-> IF t = "lummi" THEN <<10, 0, 1000, 1000>>
                                 ELSE <<0, 0, 990, 1000>>]
NoFeature == "none"
DefaultStyles == [t \in Tribes |-> "default"]

\* contents of a layer object: the module whose code created it, the fetch or
\* query whose result it shows, and whether that result was put in when the
\* layer was created ("create") or by a later clearLayers/addData ("update")
Contents(owner, id, by) == [owner |-> owner, id |-> id, by |-> by]
NoContents == Contents("none", 0, "none")

\* loading indicator: hidden, or the message of the last showLoading
Hidden == "hidden"
LoadingMessage(a) == IF a = "hazards" THEN "Loading weather alerts..."
                     ELSE "Loading river gages..."
ErrorMessage(a) == IF a = "hazards" THEN "Failed to load weather alerts"
                   ELSE "Failed to load river gages"

VARIABLES
    \* ---- MapHost (IndigenousAccessMaps)
    mapInit,          \* _map # null
    layerControl,     \* _layerControl # null
    overlayLayers,    \* _overlayLayers: name -> layer (0 when absent)
    controlLayers,    \* the layer control's list of <<layer, name>> entries
    mapLayers,        \* layers currently shown on the map
    viewport,         \* map.getBounds()
    nextLayer,        \* number of layer objects created so far
    thrown,           \* some synchronous call has thrown
    currentRegion,    \* _currentRegion
    loader,           \* text shown by the loading indicator (Hidden when not shown)
    errors,           \* messages passed to showError so far
    rejected,         \* an addToMap promise has been rejected
    \* ---- hazards / river-gage adapters, indexed by adapter
    layer,            \* _layer / _gageLayer
    data,             \* _data / _gageData: id of the fetch that produced it
    refreshInterval,  \* _refreshInterval: timer handle
    liveTimers,       \* interval timers created and not cleared
    timerCount,       \* timers created so far
    fetchCount,       \* fetches started so far
    pendingAdd,       \* addToMap calls awaiting their fetch
    pendingTick,      \* refresh ticks awaiting their fetch
    layerData,        \* contents of each layer object
    warned,           \* a refresh tick of the adapter has logged a failure
    streamLayer,      \* IARivers._streamLayer
    pendingStream,    \* an addStreamNetworkToMap call awaits its query
    \* ---- flood-zone adapter
    floodLayer,       \* _layer
    currentBounds,    \* _currentBounds
    moveendHandlers,  \* number of moveend closures registered by addToMap
    queryCount,       \* queries issued so far
    pendingQuery,     \* queries in flight
    pendingFloodAdd,  \* addToMap calls awaiting loadForCurrentView
    \* ---- tribal-boundaries adapter
    tribalLayer,      \* _layer
    tribalData,       \* _data # null
    pendingTribalAdd, \* addToMap calls awaiting loadData
    selectedFeature,  \* _selectedFeature (NoFeature when null)
    featureStyle,     \* style preset shown by each territory of _layer
    clicked,          \* features passed to the onFeatureClick handler
    pointer,          \* territory under the mouse pointer (NoFeature when none)
    \* ---- contents of the weather-alert layer
    clock,            \* the page's clock, new Date()
    alertResponse,    \* collection a fetchAlerts call has returned, not yet rendered
    alertLayer,       \* alert features shown by the hazards layer
    \* ---- conversion of a USGS response
    usgsResponse,     \* response fetchGageData has returned
    gageFeatures,     \* features convertToGeoJSON made of it
    \* ---- what has happened to calls that are still awaiting
    superseded,       \* per refresh adapter: addToMap calls (fetch ids) that were
                      \* awaiting their fetch when removeFromMap was called
    floodRequest,     \* a queryFloodZones call: its options and the URL it fetches
    raced,            \* two flood queries in flight at once: their numbers and bounds
    zoneShown         \* a flood feature as drawn: its properties, style, popup

hostVars == <<mapInit, layerControl, overlayLayers, controlLayers, mapLayers,
              viewport, nextLayer, thrown>>
refreshVars == <<layer, data, refreshInterval, liveTimers, timerCount,
                 fetchCount, pendingAdd, pendingTick, streamLayer,
                 pendingStream>>
floodVars == <<floodLayer, currentBounds, moveendHandlers, queryCount,
               pendingQuery, pendingFloodAdd>>
tribalVars == <<tribalLayer, tribalData, pendingTribalAdd, selectedFeature,
                featureStyle, clicked, pointer>>
uiVars == <<loader, errors, rejected>>
\* state no adapter handler writes
alertVars == <<clock, alertResponse, alertLayer>>
gageVars == <<usgsResponse, gageFeatures>>
contentVars == <<alertVars, gageVars>>
\* state that only the specifications about it change
asideVars == <<superseded, floodRequest, raced, zoneShown>>
apartVars == <<currentRegion, contentVars, asideVars>>
vars == <<hostVars, refreshVars, floodVars, tribalVars, layerData, warned,
          uiVars, apartVars>>

\* =========================================================== MapHost
\* the overlay part of MapHost's state as one value
Host == [overlay |-> overlayLayers, control |-> controlLayers,
         onmap |-> mapLayers, thrown |-> thrown]

SetHost(h) ==
    /\ overlayLayers' = h.overlay
    /\ controlLayers' = h.control
    /\ mapLayers' = h.onmap
    /\ thrown' = h.thrown

\* L.Control.Layers.removeLayer: drops the first entry holding the layer
RECURSIVE RemoveFirst(_, _)
RemoveFirst(s, l) ==
    IF s = <<>> THEN <<>>
    ELSE IF Head(s)[1] = l THEN Tail(s)
    ELSE <<Head(s)>> \o RemoveFirst(Tail(s), l)

\* layer.addTo(_map) throws while there is no map
addOverlayLayer(h, name, l, visible) ==
    [h EXCEPT !.overlay = [h.overlay EXCEPT ![name] = l],
              !.control = IF layerControl THEN Append(h.control, <<l, name>>)
                          ELSE h.control,
              !.onmap = IF visible /\ mapInit THEN h.onmap \cup {l} ELSE h.onmap,
              !.thrown = h.thrown \/ (visible /\ ~mapInit)]

\* an inherited property name yields a value that is no layer: without a map
\* _map.removeLayer throws, with a layer control its removeLayer throws
\* (layer.off is not a function), otherwise nothing happens
removeOverlayLayer(h, name) ==
    IF name \in ProtoKeys
    THEN [h EXCEPT !.thrown = h.thrown \/ ~mapInit \/ layerControl]
    ELSE
    LET l == h.overlay[name] IN
    IF l # 0
    THEN IF ~mapInit
         THEN [h EXCEPT !.thrown = TRUE]
         ELSE [h EXCEPT !.onmap = h.onmap \ {l},
                        !.control = IF layerControl
                                    THEN RemoveFirst(h.control, l)
                                    ELSE h.control,
                        !.overlay = [h.overlay EXCEPT ![name] = 0]]
    ELSE h

\* initMap: a `region` URL parameter naming an entry of REGIONS sets the
\* starting view and _currentRegion (an inherited name leaves the map without
\* a view); then the map is created and, unless controls = 'none', the layer
\* control
initMap(controls, region) ==
    /\ ~mapInit
    /\ mapInit' = TRUE
    /\ layerControl' = controls
    /\ IF region # NoParam /\ region \in Regions \cup ProtoKeys
       THEN /\ currentRegion' = region
            /\ viewport' = IF region \in Regions THEN RegionView(region)
                            ELSE NoBounds
       ELSE UNCHANGED <<currentRegion, viewport>>
    /\ UNCHANGED <<overlayLayers, controlLayers, mapLayers, nextLayer, thrown>>
    /\ UNCHANGED <<refreshVars, floodVars, tribalVars, layerData, warned>>
    /\ UNCHANGED <<uiVars, contentVars, asideVars>>


\* ===================================== hazards and river-gage adapters
\* the timer part of a refresh adapter's state as one value
FetchesStarted == fetchCount["hazards"] + fetchCount["rivers"]
TimersCreated == timerCount["hazards"] + timerCount["rivers"]

Timer(a) == [handle |-> refreshInterval[a], live |-> liveTimers[a],
             count |-> timerCount[a]]

\* variant: forgets clearInterval, only drops the handle
stopAutoRefresh_noClear(t) == [t EXCEPT !.handle = 0]

stopAutoRefresh(t) ==
    IF t.handle # 0
    THEN [t EXCEPT !.live = t.live \ {t.handle}, !.handle = 0]
    ELSE t

\* variant: creates the new timer without cancelling the old one
startAutoRefresh_noStop(t) ==
    [t EXCEPT !.count = t.count + 1,
              !.handle = t.count + 1,
              !.live = t.live \cup {t.count + 1}]

\* stopAutoRefresh(); _refreshInterval = setInterval(...)
startAutoRefresh(t) ==
    LET s == stopAutoRefresh(t) IN
    [s EXCEPT !.count = s.count + 1,
              !.handle = s.count + 1,
              !.live = s.live \cup {s.count + 1}]

SetTimer(a, t) ==
    /\ refreshInterval' = [refreshInterval EXCEPT ![a] = t.handle]
    /\ liveTimers' = [liveTimers EXCEPT ![a] = t.live]
    /\ timerCount' = [timerCount EXCEPT ![a] = t.count]

\* the state removeFromMap reads and writes, as one value
RefreshState(a) == [host |-> Host, layer |-> layer[a], data |-> data[a],
                    timer |-> Timer(a), stream |-> streamLayer]

\* variant: tears the layer down but leaves the refresh loop running
Refresh_removeFromMap_keepTimer(a, s) ==
    LET s2 == IF s.layer # 0
              THEN [s EXCEPT !.host = removeOverlayLayer(s.host, OverlayName(a)),
                             !.layer = 0]
              ELSE s
        s3 == IF a = "rivers" /\ s2.stream # 0
              THEN [s2 EXCEPT !.host = removeOverlayLayer(s2.host, "Streams"),
                              !.stream = 0]
              ELSE s2
    IN [s3 EXCEPT !.data = 0]

\* IAHazardLayers.removeFromMap / IARivers.removeFromMap
Refresh_removeFromMap(a, s) ==
    LET s1 == [s EXCEPT !.timer = stopAutoRefresh(s.timer)]
        s2 == IF s1.layer # 0
              THEN [s1 EXCEPT !.host = removeOverlayLayer(s1.host, OverlayName(a)),
                              !.layer = 0]
              ELSE s1
        s3 == IF a = "rivers" /\ s2.stream # 0
              THEN [s2 EXCEPT !.host = removeOverlayLayer(s2.host, "Streams"),
                              !.stream = 0]
              ELSE s2
    IN [s3 EXCEPT !.data = 0]

SetRefreshState(a, s) ==
    /\ SetHost(s.host)
    /\ layer' = [layer EXCEPT ![a] = s.layer]
    /\ data' = [data EXCEPT ![a] = s.data]
    /\ SetTimer(a, s.timer)
    /\ streamLayer' = s.stream

\* addToMap / addGagesToMap up to the await of the fetch
AddToMap(a, visible, auto) ==
    /\ mapInit
    /\ FetchesStarted < MaxFetch
    /\ fetchCount' = [fetchCount EXCEPT ![a] = @ + 1]
    /\ pendingAdd' = [pendingAdd EXCEPT ![a] = @ \cup
                        {[id |-> fetchCount[a] + 1, visible |-> visible,
                          auto |-> auto]}]
    /\ UNCHANGED <<layer, data, refreshInterval, liveTimers, timerCount,
                   pendingTick, streamLayer, pendingStream>>
    /\ UNCHANGED <<hostVars, floodVars, tribalVars, layerData, warned>>
    /\ loader' = LoadingMessage(a)
    /\ UNCHANGED <<errors, rejected, apartVars>>

\* the fetch of an addToMap resolved: layer created, registered, loop started
AddResolved(a, p) ==
    /\ p \in pendingAdd[a]
    /\ nextLayer < MaxLayers
    /\ Len(controlLayers) < MaxControl
    /\ p.auto => TimersCreated < MaxTimers
    /\ LET l == nextLayer + 1 IN
       /\ nextLayer' = l
       /\ data' = [data EXCEPT ![a] = p.id]
       /\ layer' = [layer EXCEPT ![a] = l]
       /\ layerData' = [layerData EXCEPT ![l] = Contents(a, p.id, "create")]
       /\ SetHost(addOverlayLayer(Host, OverlayName(a), l, p.visible))
       /\ SetTimer(a, IF p.auto THEN startAutoRefresh(Timer(a)) ELSE Timer(a))
    /\ pendingAdd' = [pendingAdd EXCEPT ![a] = @ \ {p}]
    /\ UNCHANGED <<fetchCount, pendingTick, streamLayer, pendingStream>>
    /\ UNCHANGED <<mapInit, layerControl, viewport>>
    /\ UNCHANGED <<floodVars, tribalVars, warned>>
    /\ loader' = Hidden
    /\ UNCHANGED <<errors, rejected, apartVars>>

\* variant: registers an empty layer when the fetch fails
AddFailed_emptyLayer(a, p) ==
    /\ p \in pendingAdd[a]
    /\ nextLayer < MaxLayers
    /\ Len(controlLayers) < MaxControl
    /\ pendingAdd' = [pendingAdd EXCEPT ![a] = @ \ {p}]
    /\ nextLayer' = nextLayer + 1
    /\ layer' = [layer EXCEPT ![a] = nextLayer + 1]
    /\ layerData' = [layerData EXCEPT ![nextLayer + 1] = Contents(a, 0, "create")]
    /\ SetHost(addOverlayLayer(Host, OverlayName(a), nextLayer + 1, p.visible))
    /\ UNCHANGED <<data, refreshInterval, liveTimers, timerCount, fetchCount,
                   pendingTick, streamLayer, pendingStream>>
    /\ UNCHANGED <<mapInit, layerControl, viewport>>
    /\ UNCHANGED <<floodVars, tribalVars, warned>>
    /\ loader' = Hidden
    /\ errors' = errors \cup {ErrorMessage(a)}
    /\ UNCHANGED <<rejected, apartVars>>

\* the fetch of an addToMap failed: caught, hideLoading, showError
AddFailed(a, p) ==
    /\ p \in pendingAdd[a]
    /\ pendingAdd' = [pendingAdd EXCEPT ![a] = @ \ {p}]
    /\ UNCHANGED <<layer, data, refreshInterval, liveTimers, timerCount,
                   fetchCount, pendingTick, streamLayer, pendingStream>>
    /\ UNCHANGED <<hostVars, floodVars, tribalVars, layerData, warned>>
    /\ loader' = Hidden
    /\ errors' = errors \cup {ErrorMessage(a)}
    /\ UNCHANGED <<rejected, apartVars>>

\* a direct call of the public startAutoRefresh
StartAutoRefresh(a) ==
    /\ TimersCreated < MaxTimers
    /\ SetTimer(a, startAutoRefresh(Timer(a)))
    /\ UNCHANGED <<layer, data, fetchCount, pendingAdd, pendingTick,
                   streamLayer, pendingStream>>
    /\ UNCHANGED <<hostVars, floodVars, tribalVars, layerData, warned>>
    /\ UNCHANGED <<uiVars, apartVars>>

StopAutoRefresh(a) ==
    /\ SetTimer(a, stopAutoRefresh(Timer(a)))
    /\ UNCHANGED <<layer, data, fetchCount, pendingAdd, pendingTick,
                   streamLayer, pendingStream>>
    /\ UNCHANGED <<hostVars, floodVars, tribalVars, layerData, warned>>
    /\ UNCHANGED <<uiVars, apartVars>>

RemoveFromMap(a) ==
    /\ SetRefreshState(a, Refresh_removeFromMap(a, RefreshState(a)))
    /\ UNCHANGED <<fetchCount, pendingAdd, pendingTick, pendingStream>>
    /\ UNCHANGED <<mapInit, layerControl, viewport, nextLayer>>
    /\ UNCHANGED <<floodVars, tribalVars, layerData, warned>>
    /\ UNCHANGED <<uiVars, apartVars>>

\* removeFromMap called while addToMap calls of the adapter await their
\* fetch: the same teardown, and nothing reaches the awaiting calls (the
\* calls it overtook are noted in superseded)
RemoveFromMap_duringLoad(a) ==
    /\ pendingAdd[a] # {}
    /\ SetRefreshState(a, Refresh_removeFromMap(a, RefreshState(a)))
    /\ superseded' = [superseded EXCEPT ![a] =
                        @ \cup {p.id : p \in pendingAdd[a]}]
    /\ UNCHANGED <<fetchCount, pendingAdd, pendingTick, pendingStream>>
    /\ UNCHANGED <<mapInit, layerControl, viewport, nextLayer>>
    /\ UNCHANGED <<floodVars, tribalVars, layerData, warned>>
    /\ UNCHANGED <<uiVars, currentRegion, contentVars, floodRequest, raced,
                   zoneShown>>

\* a live interval timer fires: the callback runs up to the await of its fetch
TickStart(a, t) ==
    /\ t \in liveTimers[a]
    /\ FetchesStarted < MaxFetch
    /\ fetchCount' = [fetchCount EXCEPT ![a] = @ + 1]
    /\ pendingTick' = [pendingTick EXCEPT ![a] = @ \cup {fetchCount[a] + 1}]
    /\ UNCHANGED <<layer, data, refreshInterval, liveTimers, timerCount,
                   pendingAdd, streamLayer, pendingStream>>
    /\ UNCHANGED <<hostVars, floodVars, tribalVars, layerData, warned>>
    /\ UNCHANGED <<uiVars, apartVars>>

\* variant: shows the new data in a fresh layer registered in place of the
\* current one
TickResolved_newLayer(a, id) ==
    /\ id \in pendingTick[a]
    /\ nextLayer < MaxLayers
    /\ Len(controlLayers) < MaxControl
    /\ pendingTick' = [pendingTick EXCEPT ![a] = @ \ {id}]
    /\ data' = [data EXCEPT ![a] = id]
    /\ nextLayer' = nextLayer + 1
    /\ layer' = [layer EXCEPT ![a] = nextLayer + 1]
    /\ layerData' = [layerData EXCEPT ![nextLayer + 1] =
                        Contents(a, id, "create")]
    /\ SetHost(addOverlayLayer(Host, OverlayName(a), nextLayer + 1, TRUE))
    /\ UNCHANGED <<refreshInterval, liveTimers, timerCount, fetchCount,
                   pendingAdd, streamLayer, pendingStream>>
    /\ UNCHANGED <<mapInit, layerControl, viewport>>
    /\ UNCHANGED <<floodVars, tribalVars, warned>>
    /\ UNCHANGED <<uiVars, apartVars>>

\* a tick's fetch resolved: _data = ...; if (_layer) { clearLayers; addData }
TickResolved(a, id) ==
    /\ id \in pendingTick[a]
    /\ pendingTick' = [pendingTick EXCEPT ![a] = @ \ {id}]
    /\ data' = [data EXCEPT ![a] = id]
    /\ layerData' = IF layer[a] # 0
                    THEN [layerData EXCEPT ![layer[a]] = Contents(a, id, "update")]
                    ELSE layerData
    /\ UNCHANGED <<layer, refreshInterval, liveTimers, timerCount, fetchCount,
                   pendingAdd, streamLayer, pendingStream>>
    /\ UNCHANGED <<hostVars, floodVars, tribalVars, warned>>
    /\ UNCHANGED <<uiVars, apartVars>>

\* variant: blanks the layer when the fetch fails
TickFailed_blanks(a, id) ==
    /\ id \in pendingTick[a]
    /\ pendingTick' = [pendingTick EXCEPT ![a] = @ \ {id}]
    /\ warned' = [warned EXCEPT ![a] = TRUE]
    /\ layerData' = IF layer[a] # 0
                    THEN [layerData EXCEPT ![layer[a]] = Contents(a, 0, "update")]
                    ELSE layerData
    /\ UNCHANGED <<layer, data, refreshInterval, liveTimers, timerCount,
                   fetchCount, pendingAdd, streamLayer, pendingStream>>
    /\ UNCHANGED <<hostVars, floodVars, tribalVars>>
    /\ UNCHANGED <<uiVars, apartVars>>

\* a tick's fetch failed: console.warn only
TickFailed(a, id) ==
    /\ id \in pendingTick[a]
    /\ pendingTick' = [pendingTick EXCEPT ![a] = @ \ {id}]
    /\ warned' = [warned EXCEPT ![a] = TRUE]
    /\ UNCHANGED <<layer, data, refreshInterval, liveTimers, timerCount,
                   fetchCount, pendingAdd, streamLayer, pendingStream>>
    /\ UNCHANGED <<hostVars, floodVars, tribalVars, layerData>>
    /\ UNCHANGED <<uiVars, apartVars>>

\* IARivers.addStreamNetworkToMap up to the await of its query (called with
\* the default options, one call in flight at a time)
AddStreamNetworkToMap ==
    /\ mapInit
    /\ ~pendingStream
    /\ FetchesStarted < MaxFetch
    /\ fetchCount' = [fetchCount EXCEPT !["rivers"] = @ + 1]
    /\ pendingStream' = TRUE
    /\ UNCHANGED <<layer, data, refreshInterval, liveTimers, timerCount,
                   pendingAdd, pendingTick, streamLayer>>
    /\ UNCHANGED <<hostVars, floodVars, tribalVars, layerData, warned>>
    /\ loader' = "Loading stream network..."
    /\ UNCHANGED <<errors, rejected, apartVars>>

StreamResolved ==
    /\ pendingStream
    /\ nextLayer < MaxLayers
    /\ Len(controlLayers) < MaxControl
    /\ pendingStream' = FALSE
    /\ nextLayer' = nextLayer + 1
    /\ streamLayer' = nextLayer + 1
    /\ SetHost(addOverlayLayer(Host, "Streams", nextLayer + 1, TRUE))
    /\ layerData' = [layerData EXCEPT ![nextLayer + 1] =
                        Contents("streams", 0, "create")]
    /\ UNCHANGED <<layer, data, refreshInterval, liveTimers, timerCount,
                   fetchCount, pendingAdd, pendingTick>>
    /\ UNCHANGED <<mapInit, layerControl, viewport>>
    /\ UNCHANGED <<floodVars, tribalVars, warned>>
    /\ loader' = Hidden
    /\ UNCHANGED <<errors, rejected, apartVars>>

StreamFailed ==
    /\ pendingStream
    /\ pendingStream' = FALSE
    /\ UNCHANGED <<layer, data, refreshInterval, liveTimers, timerCount,
                   fetchCount, pendingAdd, pendingTick, streamLayer>>
    /\ UNCHANGED <<hostVars, floodVars, tribalVars, layerData, warned>>
    /\ loader' = Hidden
    /\ UNCHANGED <<errors, rejected, apartVars>>

\* ================================================= flood-zone adapter
Abs(x) == IF x < 0 THEN -x ELSE x

\* variant: treats a difference of exactly the threshold as equal
boundsEqual_inclusive(a, b) ==
    /\ Abs(a[1] - b[1]) <= Threshold
    /\ Abs(a[2] - b[2]) <= Threshold
    /\ Abs(a[3] - b[3]) <= Threshold
    /\ Abs(a[4] - b[4]) <= Threshold

\* edges in source order: west, south, east, north
boundsEqual(a, b) ==
    /\ Abs(a[1] - b[1]) < Threshold
    /\ Abs(a[2] - b[2]) < Threshold
    /\ Abs(a[3] - b[3]) < Threshold
    /\ Abs(a[4] - b[4]) < Threshold

\* the state loadForCurrentView touches before its await, as one value
FloodLoad == [cur |-> currentBounds, count |-> queryCount,
              pending |-> pendingQuery, loader |-> loader]

\* variant: compares against the viewport when nothing was queried yet
loadForCurrentView_skipFirst(f, bounds) ==
    IF ~mapInit THEN f
    ELSE IF boundsEqual(IF f.cur = NoBounds THEN viewport ELSE f.cur, bounds)
         THEN f
    ELSE [cur |-> bounds, count |-> f.count + 1,
          pending |-> f.pending \cup {f.count + 1},
          loader |-> "Loading flood zones..."]

\* variant: queries without comparing the bounds with the last-queried ones
loadForCurrentView_always(f, bounds) ==
    IF ~mapInit THEN f
    ELSE [cur |-> bounds, count |-> f.count + 1,
          pending |-> f.pending \cup {f.count + 1},
          loader |-> "Loading flood zones..."]

\* loadForCurrentView from its entry to the await of queryFloodZones
loadForCurrentView(f, bounds) ==
    IF ~mapInit THEN f
    ELSE IF f.cur # NoBounds /\ boundsEqual(f.cur, bounds) THEN f
    ELSE [cur |-> bounds, count |-> f.count + 1,
          pending |-> f.pending \cup {f.count + 1},
          loader |-> "Loading flood zones..."]

SetFloodLoad(f) ==
    /\ f.count <= MaxQuery
    /\ currentBounds' = f.cur
    /\ queryCount' = f.count
    /\ pendingQuery' = f.pending
    /\ loader' = f.loader

\* n moveend handlers run one after the other, each calling loadForCurrentView
RECURSIVE fireMoveend(_, _, _)
fireMoveend(n, f, bounds) ==
    IF n = 0 THEN f
    ELSE fireMoveend(n - 1, loadForCurrentView(f, bounds), bounds)

\* a direct call of the public loadForCurrentView, up to its await
LoadForCurrentView ==
    /\ mapInit
    /\ SetFloodLoad(loadForCurrentView(FloodLoad, viewport))
    /\ UNCHANGED <<floodLayer, moveendHandlers, pendingFloodAdd>>
    /\ UNCHANGED <<hostVars, refreshVars, tribalVars, layerData, warned>>
    /\ UNCHANGED <<errors, rejected, apartVars>>

\* the user pans or zooms; the map settles on view v and fires moveend
MoveEnd(v) ==
    /\ mapInit
    /\ viewport' = v
    /\ SetFloodLoad(fireMoveend(moveendHandlers, FloodLoad, v))
    /\ UNCHANGED <<floodLayer, moveendHandlers, pendingFloodAdd>>
    /\ UNCHANGED <<mapInit, layerControl, overlayLayers, controlLayers,
                   mapLayers, nextLayer, thrown>>
    /\ UNCHANGED <<refreshVars, tribalVars, layerData, warned>>
    /\ UNCHANGED <<errors, rejected, apartVars>>

NoRace == [first |-> 0, firstBounds |-> NoBounds,
           second |-> 0, secondBounds |-> NoBounds]

\* the map settles on view v while the query of an earlier moveend is still
\* in flight: the handlers run as in MoveEnd, and when they issue a query the
\* two queries in flight are noted with their bounds
MoveEnd_duringLoad(v) ==
    /\ mapInit
    /\ queryCount \in pendingQuery
    /\ pendingFloodAdd = {}
    /\ currentBounds # NoBounds
    /\ raced = NoRace
    /\ viewport' = v
    /\ LET f == fireMoveend(moveendHandlers, FloodLoad, v) IN
       /\ f.count <= MaxQuery + 1
       /\ currentBounds' = f.cur
       /\ queryCount' = f.count
       /\ pendingQuery' = f.pending
       /\ loader' = f.loader
       /\ raced' = IF f.count = queryCount THEN raced
                   ELSE [first |-> queryCount, firstBounds |-> currentBounds,
                         second |-> f.count, secondBounds |-> f.cur]
    /\ UNCHANGED <<floodLayer, moveendHandlers, pendingFloodAdd>>
    /\ UNCHANGED <<mapInit, layerControl, overlayLayers, controlLayers,
                   mapLayers, nextLayer, thrown>>
    /\ UNCHANGED <<refreshVars, tribalVars, layerData, warned>>
    /\ UNCHANGED <<errors, rejected, currentRegion, contentVars, superseded,
                   floodRequest, zoneShown>>

\* the state the tail of IAFloodZones.addToMap touches, as one value
FloodReg(l) == [host |-> Host, layer |-> l, handlers |-> moveendHandlers]

\* IAFloodZones.addToMap after `await loadForCurrentView`: register the layer
\* if there is one, hook moveend unless dynamicLoad is false
Flood_addToMapTail(s, p) ==
    LET s1 == IF s.layer # 0
              THEN [s EXCEPT !.host = addOverlayLayer(s.host, "FEMA Flood Zones",
                                                      s.layer, p.visible)]
              ELSE s
    IN IF p.dynamicLoad THEN [s1 EXCEPT !.handlers = s1.handlers + 1] ELSE s1

\* the addToMap calls whose await ends when query q settles run their tails
\* in the same turn of the event loop (promise reactions are microtasks)
RECURSIVE Flood_resumeAll(_, _)
Flood_resumeAll(s, ps) ==
    IF ps = {} THEN s
    ELSE LET p == CHOOSE x \in ps : TRUE
         IN Flood_resumeAll(Flood_addToMapTail(s, p), ps \ {p})

SetFloodReg(s) ==
    /\ Len(s.host.control) <= MaxControl
    /\ s.handlers <= MaxHandlers
    /\ SetHost(s.host)
    /\ moveendHandlers' = s.handlers

Waiters(q) == {p \in pendingFloodAdd : p.wait = q}

\* variant: builds a fresh layer object on every reload
QueryResolved_recreate(q) ==
    /\ q \in pendingQuery
    /\ pendingQuery' = pendingQuery \ {q}
    /\ nextLayer < MaxLayers
    /\ nextLayer' = nextLayer + 1
    /\ floodLayer' = nextLayer + 1
    /\ layerData' = [layerData EXCEPT ![nextLayer + 1] =
                        Contents("flood", q, "create")]
    /\ SetFloodReg(Flood_resumeAll(FloodReg(floodLayer'), Waiters(q)))
    /\ pendingFloodAdd' = pendingFloodAdd \ Waiters(q)
    /\ UNCHANGED <<currentBounds, queryCount>>
    /\ UNCHANGED <<mapInit, layerControl, viewport>>
    /\ UNCHANGED <<refreshVars, tribalVars, warned>>
    /\ loader' = Hidden
    /\ UNCHANGED <<errors, rejected, apartVars>>

\* a query resolved: update the layer in place, or create it
QueryResolved(q) ==
    /\ q \in pendingQuery
    /\ pendingQuery' = pendingQuery \ {q}
    /\ IF floodLayer # 0
       THEN /\ layerData' = [layerData EXCEPT ![floodLayer] =
                                Contents("flood", q, "update")]
            /\ UNCHANGED <<floodLayer, nextLayer>>
       ELSE /\ nextLayer < MaxLayers
            /\ nextLayer' = nextLayer + 1
            /\ floodLayer' = nextLayer + 1
            /\ layerData' = [layerData EXCEPT ![nextLayer + 1] =
                                Contents("flood", q, "create")]
    /\ SetFloodReg(Flood_resumeAll(FloodReg(floodLayer'), Waiters(q)))
    /\ pendingFloodAdd' = pendingFloodAdd \ Waiters(q)
    /\ UNCHANGED <<currentBounds, queryCount>>
    /\ UNCHANGED <<mapInit, layerControl, viewport>>
    /\ UNCHANGED <<refreshVars, tribalVars, warned>>
    /\ loader' = Hidden
    /\ UNCHANGED <<errors, rejected, apartVars>>

\* a query failed: caught inside loadForCurrentView, hideLoading, showError
QueryFailed(q) ==
    /\ q \in pendingQuery
    /\ pendingQuery' = pendingQuery \ {q}
    /\ SetFloodReg(Flood_resumeAll(FloodReg(floodLayer), Waiters(q)))
    /\ pendingFloodAdd' = pendingFloodAdd \ Waiters(q)
    /\ UNCHANGED <<floodLayer, currentBounds, queryCount>>
    /\ UNCHANGED <<mapInit, layerControl, viewport, nextLayer>>
    /\ UNCHANGED <<refreshVars, tribalVars, layerData, warned>>
    /\ loader' = Hidden
    /\ errors' = errors \cup {"Failed to load flood zones"}
    /\ UNCHANGED <<rejected, apartVars>>

\* IAFloodZones.addToMap: the initial load, then the tail; when the load
\* issues a query the tail waits for it, when the load is skipped it runs at
\* once
Flood_AddToMap(visible, dynamicLoad) ==
    /\ mapInit
    /\ LET f == loadForCurrentView(FloodLoad, viewport)
           p == [wait |-> f.count, visible |-> visible,
                 dynamicLoad |-> dynamicLoad]
       IN /\ SetFloodLoad(f)
          /\ IF f.count = queryCount
             THEN /\ SetFloodReg(Flood_addToMapTail(FloodReg(floodLayer), p))
                  /\ UNCHANGED pendingFloodAdd
             ELSE /\ pendingFloodAdd' = pendingFloodAdd \cup {p}
                  /\ UNCHANGED <<overlayLayers, controlLayers, mapLayers,
                                 thrown, moveendHandlers>>
    /\ UNCHANGED floodLayer
    /\ UNCHANGED <<mapInit, layerControl, viewport, nextLayer>>
    /\ UNCHANGED <<refreshVars, tribalVars, layerData, warned>>
    /\ UNCHANGED <<errors, rejected, apartVars>>

\* the state IAFloodZones.removeFromMap reads and writes, as one value
FloodState == [host |-> Host, layer |-> floodLayer, cur |-> currentBounds,
               handlers |-> moveendHandlers]

\* variant: calls map.off without the `if (map)` guard
Flood_removeFromMap_noGuard(s) ==
    LET s1 == IF mapInit THEN s ELSE [s EXCEPT !.host.thrown = TRUE]
        s2 == IF s1.layer # 0
              THEN [s1 EXCEPT !.host = removeOverlayLayer(s1.host,
                                                          "FEMA Flood Zones"),
                              !.layer = 0]
              ELSE s1
    IN [s2 EXCEPT !.cur = NoBounds]

\* map.off('moveend', loadForCurrentView) names a function that was never
\* registered (addToMap registers arrow closures), so it removes no handler
Flood_removeFromMap(s) ==
    LET s1 == IF mapInit THEN [s EXCEPT !.handlers = s.handlers] ELSE s
        s2 == IF s1.layer # 0
              THEN [s1 EXCEPT !.host = removeOverlayLayer(s1.host,
                                                          "FEMA Flood Zones"),
                              !.layer = 0]
              ELSE s1
    IN [s2 EXCEPT !.cur = NoBounds]

Flood_RemoveFromMap ==
    /\ LET s == Flood_removeFromMap(FloodState) IN
       /\ SetHost(s.host)
       /\ floodLayer' = s.layer
       /\ currentBounds' = s.cur
       /\ moveendHandlers' = s.handlers
    /\ UNCHANGED <<queryCount, pendingQuery, pendingFloodAdd>>
    /\ UNCHANGED <<mapInit, layerControl, viewport, nextLayer>>
    /\ UNCHANGED <<refreshVars, tribalVars, layerData, warned>>
    /\ UNCHANGED <<uiVars, apartVars>>

\* ========================================== tribal-boundaries adapter
TribalState == [host |-> Host, layer |-> tribalLayer, next |-> nextLayer,
                contents |-> layerData, style |-> featureStyle]

\* addToMap after _data is available: createLayer unless one exists, addOverlay
Tribal_register(s, visible) ==
    LET s1 == IF s.layer = 0
              THEN [s EXCEPT !.layer = s.next + 1, !.next = s.next + 1,
                             !.contents[s.next + 1] =
                                 Contents("tribal", 0, "create"),
                             !.style = DefaultStyles]
              ELSE s
    IN [s1 EXCEPT !.host = addOverlayLayer(s1.host, "Tribal Boundaries",
                                           s1.layer, visible)]

SetTribalState(s) ==
    /\ s.next <= MaxLayers
    /\ Len(s.host.control) <= MaxControl
    /\ SetHost(s.host)
    /\ tribalLayer' = s.layer
    /\ nextLayer' = s.next
    /\ layerData' = s.contents
    /\ featureStyle' = s.style

\* IATribalBoundaries.addToMap: synchronous when the data is already loaded,
\* otherwise it awaits loadData
Tribal_AddToMap(visible) ==
    /\ mapInit
    /\ IF tribalData
       THEN /\ SetTribalState(Tribal_register(TribalState, visible))
            /\ UNCHANGED <<pendingTribalAdd, loader>>
       ELSE /\ visible \notin pendingTribalAdd
            /\ pendingTribalAdd' = pendingTribalAdd \cup {visible}
            /\ loader' = "Loading Tribal boundaries..."
            /\ UNCHANGED <<overlayLayers, controlLayers, mapLayers, thrown,
                           tribalLayer, nextLayer, layerData, featureStyle>>
    /\ UNCHANGED <<tribalData, selectedFeature, clicked, pointer>>
    /\ UNCHANGED <<mapInit, layerControl, viewport>>
    /\ UNCHANGED <<refreshVars, floodVars, warned>>
    /\ UNCHANGED <<errors, rejected, apartVars>>

Tribal_LoadResolved(visible) ==
    /\ visible \in pendingTribalAdd
    /\ pendingTribalAdd' = pendingTribalAdd \ {visible}
    /\ tribalData' = TRUE
    /\ SetTribalState(Tribal_register(TribalState, visible))
    /\ UNCHANGED <<selectedFeature, clicked, pointer>>
    /\ UNCHANGED <<mapInit, layerControl, viewport>>
    /\ UNCHANGED <<refreshVars, floodVars, warned>>
    /\ loader' = Hidden
    /\ UNCHANGED <<errors, rejected, apartVars>>

\* loadData failed: hideLoading, showError, rethrown out of addToMap
Tribal_LoadFailed(visible) ==
    /\ visible \in pendingTribalAdd
    /\ pendingTribalAdd' = pendingTribalAdd \ {visible}
    /\ UNCHANGED <<tribalLayer, tribalData, selectedFeature, featureStyle,
                   clicked, pointer>>
    /\ UNCHANGED <<hostVars, refreshVars, floodVars, layerData, warned>>
    /\ loader' = Hidden
    /\ errors' = errors \cup {"Failed to load Tribal boundaries"}
    /\ rejected' = TRUE
    /\ UNCHANGED apartVars

Tribal_removeFromMap(s) ==
    IF s.layer # 0
    THEN [s EXCEPT !.host = removeOverlayLayer(s.host, "Tribal Boundaries"),
                   !.layer = 0]
    ELSE s

Tribal_RemoveFromMap ==
    /\ SetTribalState(Tribal_removeFromMap(TribalState))
    /\ UNCHANGED <<tribalData, pendingTribalAdd, selectedFeature, clicked, pointer>>
    /\ UNCHANGED <<mapInit, layerControl, viewport>>
    /\ UNCHANGED <<refreshVars, floodVars, warned>>
    /\ UNCHANGED <<uiVars, apartVars>>

\* the selection part of the adapter's state as one value
Selection == [layer |-> tribalLayer, data |-> tribalData,
              selected |-> selectedFeature, style |-> featureStyle]

SetSelection(s) ==
    /\ selectedFeature' = s.selected
    /\ featureStyle' = s.style

\* variant: highlights whatever the pointer enters
mouseover_noGuard(s, t) == [s EXCEPT !.style[t] = "highlighted"]

\* the mouseover handler of territory t
mouseover(s, t) ==
    IF s.selected # t THEN [s EXCEPT !.style[t] = "highlighted"] ELSE s

\* the mouseout handler of territory t
mouseout(s, t) ==
    IF s.selected # t THEN [s EXCEPT !.style[t] = "default"] ELSE s

\* variant: selects without deselecting the previous territory
click_noReset(s, t) == [s EXCEPT !.selected = t, !.style[t] = "selected"]

\* the click handler of territory t; _layer.resetStyle() without an argument
\* resets every territory of the layer
click(s, t) ==
    LET s1 == IF s.selected # NoFeature /\ s.selected # t
              THEN [s EXCEPT !.style = DefaultStyles]
              ELSE s
    IN [s1 EXCEPT !.selected = t, !.style[t] = "selected"]

\* IATribalBoundaries.focusTribe: the territory whose code matches is styled
\* selected and recorded; nothing else is restyled
focusTribe(s, code) ==
    IF s.layer = 0 \/ ~s.data THEN s
    ELSE IF code \in Tribes
         THEN [s EXCEPT !.selected = code, !.style[code] = "selected"]
         ELSE s

clearSelection(s) ==
    IF s.selected # NoFeature /\ s.layer # 0
    THEN [s EXCEPT !.style = DefaultStyles, !.selected = NoFeature]
    ELSE s

\* mouse events reach the territories only while the layer is on the map
TribalShown == tribalLayer # 0 /\ tribalLayer \in mapLayers

\* the pointer enters territory t
MouseOver(t) ==
    /\ TribalShown
    /\ pointer = NoFeature
    /\ pointer' = t
    /\ SetSelection(mouseover(Selection, t))
    /\ UNCHANGED <<tribalLayer, tribalData, pendingTribalAdd, clicked>>
    /\ UNCHANGED <<hostVars, refreshVars, floodVars, layerData, warned>>
    /\ UNCHANGED <<uiVars, apartVars>>

\* the pointer leaves territory t
MouseOut(t) ==
    /\ TribalShown
    /\ pointer = t
    /\ pointer' = NoFeature
    /\ SetSelection(mouseout(Selection, t))
    /\ UNCHANGED <<tribalLayer, tribalData, pendingTribalAdd, clicked>>
    /\ UNCHANGED <<hostVars, refreshVars, floodVars, layerData, warned>>
    /\ UNCHANGED <<uiVars, apartVars>>

\* a click on territory t, reported to the page's onFeatureClick handler
Click(t) ==
    /\ TribalShown
    /\ pointer = t
    /\ Len(clicked) < MaxClicks
    /\ SetSelection(click(Selection, t))
    /\ clicked' = Append(clicked, t)
    /\ UNCHANGED <<tribalLayer, tribalData, pendingTribalAdd, pointer>>
    /\ UNCHANGED <<hostVars, refreshVars, floodVars, layerData, warned>>
    /\ UNCHANGED <<uiVars, apartVars>>

\* focusTribe(code): when a territory matches, map.fitBounds moves the view
\* (the moveend handlers run) and the territory is selected
FocusTribe(code) ==
    /\ SetSelection(focusTribe(Selection, code))
    /\ IF tribalLayer # 0 /\ tribalData /\ code \in Tribes
       THEN /\ viewport' = TribeBounds[code]
            /\ SetFloodLoad(fireMoveend(moveendHandlers, FloodLoad,
                                        TribeBounds[code]))
       ELSE UNCHANGED <<viewport, currentBounds, queryCount, pendingQuery,
                        loader>>
    /\ UNCHANGED <<tribalLayer, tribalData, pendingTribalAdd, clicked, pointer>>
    /\ UNCHANGED <<floodLayer, moveendHandlers, pendingFloodAdd>>
    /\ UNCHANGED <<mapInit, layerControl, overlayLayers, controlLayers,
                   mapLayers, nextLayer, thrown>>
    /\ UNCHANGED <<refreshVars, layerData, warned>>
    /\ UNCHANGED <<errors, rejected, apartVars>>

ClearSelection ==
    /\ SetSelection(clearSelection(Selection))
    /\ UNCHANGED <<tribalLayer, tribalData, pendingTribalAdd, clicked, pointer>>
    /\ UNCHANGED <<hostVars, refreshVars, floodVars, layerData, warned>>
    /\ UNCHANGED <<uiVars, apartVars>>

\* ======================================= MapHost calls made by the page
\* the state focusRegion reads and writes, as one value
RegionState == [region |-> currentRegion, view |-> viewport,
                thrown |-> thrown]

\* focusRegion: REGIONS[code.toLowerCase()]; a falsy result warns and
\* returns; otherwise _currentRegion is set and the map is moved to
\* region.center / region.zoom (flyTo and setView end on the same view),
\* which throws without a map or without a centre
focusRegion(s, code) ==
    LET key == ToLower[code] IN
    IF key \notin Regions \cup ProtoKeys THEN s
    ELSE IF mapInit /\ key \in Regions
         THEN [s EXCEPT !.region = key, !.view = RegionView(key)]
         ELSE [s EXCEPT !.region = key, !.thrown = TRUE]

\* a call of IndigenousAccessMaps.focusRegion; when the map moves, the
\* moveend handlers run
FocusRegion(code) ==
    /\ LET s == focusRegion(RegionState, code) IN
       /\ currentRegion' = s.region
       /\ viewport' = s.view
       /\ thrown' = s.thrown
       /\ IF mapInit /\ ToLower[code] \in Regions
          THEN SetFloodLoad(fireMoveend(moveendHandlers, FloodLoad, s.view))
          ELSE UNCHANGED <<currentBounds, queryCount, pendingQuery, loader>>
    /\ UNCHANGED <<mapInit, layerControl, overlayLayers, controlLayers,
                   mapLayers, nextLayer>>
    /\ UNCHANGED <<floodLayer, moveendHandlers, pendingFloodAdd>>
    /\ UNCHANGED <<refreshVars, tribalVars, layerData, warned>>
    /\ UNCHANGED <<errors, rejected, contentVars, asideVars>>

\* layer objects and names the page passes to addOverlay / removeOverlay
PageLayers == 1..MaxLayers
PageNames == {"Streams", "River Gages"}

\* a call of IndigenousAccessMaps.addOverlay
AddOverlay(name, l, visible) ==
    /\ layerControl => Len(controlLayers) < MaxControl
    /\ SetHost(addOverlayLayer(Host, name, l, visible))
    /\ UNCHANGED <<mapInit, layerControl, viewport, nextLayer>>
    /\ UNCHANGED <<refreshVars, floodVars, tribalVars, layerData, warned>>
    /\ UNCHANGED <<uiVars, apartVars>>

\* a call of IndigenousAccessMaps.removeOverlay
RemoveOverlay(name) ==
    /\ SetHost(removeOverlayLayer(Host, name))
    /\ UNCHANGED <<mapInit, layerControl, viewport, nextLayer>>
    /\ UNCHANGED <<refreshVars, floodVars, tribalVars, layerData, warned>>
    /\ UNCHANGED <<uiVars, apartVars>>

\* ============================== contents of the weather-alert layer
\* instants of the page's clock
Times == 0..MaxTime

\* feature.properties.expires of an alert: no such field, a string that is
\* not a date, or the timestamp of an instant
NoExpires == [kind |-> "absent", at |-> 0]
Expires == {NoExpires, [kind |-> "invalid", at |-> 0]}
               \cup [kind : {"time"}, at : Times]

\* an NWS response: the expires field of each of its features
RECURSIVE SeqsUpTo(_, _)
SeqsUpTo(S, n) ==
    IF n = 0 THEN {<<>>}
    ELSE LET shorter == SeqsUpTo(S, n - 1) IN
         shorter \cup {Append(q, x) : q \in {r \in shorter : Len(r) = n - 1},
                                      x \in S}
AlertCollections == SeqsUpTo(Expires, MaxAlerts)

NoResponse == [got |-> FALSE, features |-> <<>>, at |-> 0]
NoAlertLayer == [made |-> FALSE, features |-> <<>>, at |-> 0, shown |-> {},
                 by |-> "none"]

\* new Date(expires): an Invalid Date when the string does not parse
DateOf(e) == [valid |-> e.kind = "time", ms |-> e.at]

\* date > new Date(): a comparison with an Invalid Date (NaN) is false
After(d, now) == d.valid /\ d.ms > now

\* a filter that lets every alert through
filter_keepAll(e, now) == TRUE

\* the filter option of the alert layer: an alert with a truthy expires is
\* kept only while that instant is still ahead; one without is kept
filter(e, now) ==
    IF e.kind # "absent" THEN After(DateOf(e), now) ELSE TRUE

\* L.GeoJSON.addData: the features of the collection that pass the filter
\* are added to those already shown (features are named by their position)
addData(shown, features, now) ==
    shown \cup {i \in 1..Len(features) : filter(features[i], now)}

\* createLayer: L.geoJSON(data, {..., filter}) adds the data to a new layer
createLayer(features, now) == addData({}, features, now)

\* the clock moves on
Alerts_ClockTick ==
    /\ clock < MaxTime
    /\ clock' = clock + 1
    /\ UNCHANGED <<alertResponse, alertLayer>>
    /\ UNCHANGED <<hostVars, refreshVars, floodVars, tribalVars, layerData,
                   warned, uiVars, currentRegion, gageVars, asideVars>>

\* fetchAlerts returns a collection
Alerts_Fetched(features) ==
    /\ ~alertResponse.got
    /\ alertResponse' = [got |-> TRUE, features |-> features, at |-> clock]
    /\ UNCHANGED <<clock, alertLayer>>
    /\ UNCHANGED <<hostVars, refreshVars, floodVars, tribalVars, layerData,
                   warned, uiVars, currentRegion, gageVars, asideVars>>

\* addToMap after its fetch: _layer = createLayer(data)
Alerts_AddResolved ==
    /\ alertResponse.got
    /\ ~alertLayer.made
    /\ alertLayer' = [made |-> TRUE, features |-> alertResponse.features,
                      at |-> alertResponse.at,
                      shown |-> createLayer(alertResponse.features, clock),
                      by |-> "create"]
    /\ alertResponse' = NoResponse
    /\ UNCHANGED clock
    /\ UNCHANGED <<hostVars, refreshVars, floodVars, tribalVars, layerData,
                   warned, uiVars, currentRegion, gageVars, asideVars>>

\* a refresh tick (or refresh()) after its fetch:
\* if (_layer) { _layer.clearLayers(); _layer.addData(data) }
Alerts_TickResolved ==
    /\ alertResponse.got
    /\ alertLayer.made
    /\ alertLayer' = [made |-> TRUE, features |-> alertResponse.features,
                      at |-> alertResponse.at,
                      shown |-> addData({}, alertResponse.features, clock),
                      by |-> "update"]
    /\ alertResponse' = NoResponse
    /\ UNCHANGED clock
    /\ UNCHANGED <<hostVars, refreshVars, floodVars, tribalVars, layerData,
                   warned, uiVars, currentRegion, gageVars, asideVars>>

\* ================================== conversion of a USGS response
PARAMETER_CODES ==
    [discharge |-> "00060", gageHeight |-> "00065", temperature |-> "00010",
     precipitation |-> "00045", turbidity |-> "63680"]

\* parameter codes a request can name (options.parameters), site codes, and
\* the readings of a series
ParamCodes == {PARAMETER_CODES.discharge, PARAMETER_CODES.gageHeight,
               PARAMETER_CODES.temperature}
SiteCodes == {"12200500", "14105700"}
Readings == {[value |-> "Ice", dateTime |-> "t1"],
             [value |-> "1250", dateTime |-> "t2"]}
ValueLists == {<<>>} \cup {<<r>> : r \in Readings}
                  \cup {<<[value |-> "Ice", dateTime |-> "t1"],
                           [value |-> "1250", dateTime |-> "t2"]>>}
Series == [siteCode : SiteCodes, paramCode : ParamCodes, values : ValueLists]

\* a response without value.timeSeries, or one with a list of series
NoUsgsResponse == [got |-> FALSE, has |-> FALSE, timeSeries |-> <<>>]
UsgsResponses ==
    {[got |-> TRUE, has |-> FALSE, timeSeries |-> <<>>]}
        \cup {[got |-> TRUE, has |-> TRUE, timeSeries |-> ts] :
                  ts \in SeqsUpTo(Series, MaxSeries)}
NotConverted == [done |-> FALSE, features |-> <<>>]

\* parseFloat: the number a string starts with, NaN when it starts with none
NoNumber == [set |-> FALSE, nan |-> FALSE, num |-> 0]
parseFloat(str) ==
    IF str = "1250" THEN [set |-> TRUE, nan |-> FALSE, num |-> 1250]
    ELSE [set |-> TRUE, nan |-> TRUE, num |-> 0]

\* values.length > 0 ? values[values.length - 1] : null
NoReading == [value |-> "", dateTime |-> "undefined"]
latestValue(series) ==
    IF Len(series.values) > 0 THEN series.values[Len(series.values)]
    ELSE NoReading

\* siteMap.has / siteMap.get: the Map keeps its features in insertion order
SiteIndex(siteMap, siteCode) ==
    IF \E i \in 1..Len(siteMap) : siteMap[i].siteCode = siteCode
    THEN CHOOSE i \in 1..Len(siteMap) : siteMap[i].siteCode = siteCode
    ELSE 0

\* the body of the forEach for one series: the first series of a site makes
\* its feature (with the dateTime of that series' latest value); a discharge
\* or gage-height series with a latest value then sets its field
addSeries(siteMap, series) ==
    LET latest == latestValue(series)
        withSite ==
            IF SiteIndex(siteMap, series.siteCode) = 0
            THEN Append(siteMap, [siteCode |-> series.siteCode,
                                  dateTime |-> latest.dateTime,
                                  streamflow |-> NoNumber,
                                  gageHeight |-> NoNumber])
            ELSE siteMap
        i == SiteIndex(withSite, series.siteCode)
    IN  IF series.paramCode = PARAMETER_CODES.discharge /\ latest # NoReading
        THEN [withSite EXCEPT ![i].streamflow = parseFloat(latest.value)]
        ELSE IF series.paramCode = PARAMETER_CODES.gageHeight
                    /\ latest # NoReading
             THEN [withSite EXCEPT ![i].gageHeight = parseFloat(latest.value)]
             ELSE withSite

RECURSIVE forEachSeries(_, _, _)
forEachSeries(timeSeries, k, siteMap) ==
    IF k > Len(timeSeries) THEN siteMap
    ELSE forEachSeries(timeSeries, k + 1, addSeries(siteMap, timeSeries[k]))

\* convertToGeoJSON: the features of the returned collection
convertToGeoJSON(response) ==
    IF ~response.has THEN <<>>
    ELSE forEachSeries(response.timeSeries, 1, <<>>)

\* fetchGageData returns a response
Gages_Fetched(response) ==
    /\ ~usgsResponse.got
    /\ usgsResponse' = response
    /\ UNCHANGED gageFeatures
    /\ UNCHANGED <<hostVars, refreshVars, floodVars, tribalVars, layerData,
                   warned, uiVars, currentRegion, alertVars, asideVars>>

\* the response is converted
Gages_Converted ==
    /\ usgsResponse.got
    /\ ~gageFeatures.done
    /\ gageFeatures' = [done |-> TRUE,
                        features |-> convertToGeoJSON(usgsResponse)]
    /\ UNCHANGED usgsResponse
    /\ UNCHANGED <<hostVars, refreshVars, floodVars, tribalVars, layerData,
                   warned, uiVars, currentRegion, alertVars, asideVars>>

\* ===================================== the URL of a flood-zone query
\* Text is a sequence of tokens: a punctuation character, or a run of
\* characters that form encoding leaves alone (letters, digits, _ . - *).

\* options.zoneFilter: undefined, or a list of zone codes
ZoneCodes == {"A", "AE", "VE", "X"}
NoFilter == [has |-> FALSE, zones |-> <<>>]
ZoneFilters == {NoFilter} \cup
    {[has |-> TRUE, zones |-> zs] : zs \in SeqsUpTo(ZoneCodes, MaxZones)}
NoRequest == [called |-> FALSE, issued |-> FALSE, filter |-> NoFilter,
              url |-> <<>>]

RECURSIVE Join(_, _)
\* Array.join / concatenation of texts with a separator between them
Join(texts, sep) ==
    IF texts = <<>> THEN <<>>
    ELSE IF Len(texts) = 1 THEN texts[1]
    ELSE texts[1] \o sep \o Join(Tail(texts), sep)

\* variant: lists the zone codes without quoting them
whereClause_unquoted(zones) ==
    <<"FLD_ZONE", " ", "IN", " ", "(">>
        \o Join([i \in 1..Len(zones) |-> <<zones[i]>>], <<",">>)
        \o <<")">>

\* `FLD_ZONE IN (${zoneFilter.map(z => `'${z}'`).join(',')})`
whereClause(zones) ==
    <<"FLD_ZONE", " ", "IN", " ", "(">>
        \o Join([i \in 1..Len(zones) |-> <<"'", zones[i], "'">>], <<",">>)
        \o <<")">>

\* the URLSearchParams of the query as a list of <<name, value>>: the fixed
\* parameters (the geometry JSON and the field list shortened), then `where`
\* when a zoneFilter is given
queryParams(zoneFilter) ==
    << <<"geometry", <<"{", "xmin", ":", "0", "}">> >>,
       <<"geometryType", <<"esriGeometryEnvelope">> >>,
       <<"spatialRel", <<"esriSpatialRelIntersects">> >>,
       <<"outFields", <<"FLD_ZONE", ",", "SFHA_TF">> >>,
       <<"returnGeometry", <<"true">> >>,
       <<"f", <<"geojson">> >>,
       <<"outSR", <<"4326">> >> >>
    \o IF zoneFilter.has THEN << <<"where", whereClause(zoneFilter.zones)>> >>
       ELSE <<>>

\* application/x-www-form-urlencoded serialisation of one token and back
formEncode(t) ==
    CASE t = " " -> "+"
      [] t = "'" -> "%27"
      [] t = "(" -> "%28"
      [] t = ")" -> "%29"
      [] t = "," -> "%2C"
      [] t = ":" -> "%3A"
      [] t = "{" -> "%7B"
      [] t = "}" -> "%7D"
      [] t = "=" -> "%3D"
      [] t = "&" -> "%26"
      [] OTHER -> t
formDecode(t) ==
    CASE t = "+" -> " "
      [] t = "%27" -> "'"
      [] t = "%28" -> "("
      [] t = "%29" -> ")"
      [] t = "%2C" -> ","
      [] t = "%3A" -> ":"
      [] t = "%7B" -> "{"
      [] t = "%7D" -> "}"
      [] t = "%3D" -> "="
      [] t = "%26" -> "&"
      [] OTHER -> t
DecodeText(text) == [i \in 1..Len(text) |-> formDecode(text[i])]

\* URLSearchParams.toString(): name=value pairs, encoded, joined by &
toQueryString(params) ==
    Join([i \in 1..Len(params) |->
             <<formEncode(params[i][1]), "=">>
                 \o [k \in 1..Len(params[i][2]) |-> formEncode(params[i][2][k])]],
         <<"&">>)

\* queryFloodZones is called with some options
Query_Called(zoneFilter) ==
    /\ ~floodRequest.called
    /\ floodRequest' = [called |-> TRUE, issued |-> FALSE, filter |-> zoneFilter,
                        url |-> <<>>]
    /\ UNCHANGED <<superseded, raced, zoneShown>>
    /\ UNCHANGED <<hostVars, refreshVars, floodVars, tribalVars, layerData,
                   warned, uiVars, currentRegion, contentVars>>

\* and fetches `${NFHL_SERVICE}/${layerId}/query?${params}`; url is the part
\* after the question mark
Query_Issued ==
    /\ floodRequest.called
    /\ ~floodRequest.issued
    /\ floodRequest' = [floodRequest EXCEPT !.issued = TRUE,
                                            !.url = toQueryString(
                                       queryParams(floodRequest.filter))]
    /\ UNCHANGED <<superseded, raced, zoneShown>>
    /\ UNCHANGED <<hostVars, refreshVars, floodVars, tribalVars, layerData,
                   warned, uiVars, currentRegion, contentVars>>

\* ============================== flood zones: colour, popup, SFHA test
\* the FEMA zone codes of the enumeration
ZoneEnumeration == {"A", "AE", "AH", "AO", "AR", "A99", "V", "VE",
                    "B", "X500", "C", "X", "D"}

ZONE_COLORS == [z \in ZoneEnumeration \cup {"default"} |->
    CASE z \in {"A", "AE"} -> "#0066CC"
      [] z \in {"AH", "AO"} -> "#3399FF"
      [] z \in {"AR", "A99"} -> "#6699CC"
      [] z \in {"V", "VE"} -> "#CC0066"
      [] z \in {"B", "X500"} -> "#FFCC00"
      [] z \in {"C", "X"} -> "#99CC99"
      [] z = "D" -> "#CCCCCC"
      [] OTHER -> "#808080"]

\* feature properties; "" stands for an absent property
FloodProperties ==
    [FLD_ZONE : ZoneEnumeration \cup {"", "OPEN WATER"},
     zone : {"", "AE"},
     SFHA_TF : {"", "T", "F"},
     STATIC_BFE : BOOLEAN]
NoZoneShown == [shown |-> FALSE]

\* styleFeature: colour by FLD_ZONE, weight by SFHA_TF
styleFeature(properties) ==
    LET zone == IF properties.FLD_ZONE # "" THEN properties.FLD_ZONE
                ELSE "default"
        color == IF zone \in DOMAIN ZONE_COLORS THEN ZONE_COLORS[zone]
                 ELSE ZONE_COLORS["default"]
    IN [color |-> color, weight |-> IF properties.SFHA_TF = "T" THEN 2 ELSE 1]

\* IAFloodZones.isSFHA
isSFHA(zone) == zone \in {"A", "AE", "AH", "AO", "AR", "A99", "V", "VE"}

\* the `zones` table of getFloodZoneInfo
zones == [z \in {"A", "AE", "AH", "AO", "V", "VE", "X", "B", "C", "D"} |->
    CASE z \in {"A", "AE", "AH", "AO"} ->
             [riskLevel |-> "high", riskLabel |-> "High Risk"]
      [] z \in {"V", "VE"} ->
             [riskLevel |-> "high", riskLabel |-> "High Risk - Coastal"]
      [] z \in {"X", "C"} ->
             [riskLevel |-> "low", riskLabel |-> "Minimal Risk"]
      [] z = "B" -> [riskLevel |-> "moderate", riskLabel |-> "Moderate Risk"]
      [] OTHER -> [riskLevel |-> "unknown", riskLabel |-> "Undetermined"]]

\* zones[zone] || the fallback
getFloodZoneInfo(zone) ==
    IF zone \in DOMAIN zones THEN zones[zone]
    ELSE [riskLevel |-> "unknown", riskLabel |-> "Unknown"]

\* IAPopups.floodZone: what the popup shows
floodZone(properties) ==
    LET zone == IF properties.FLD_ZONE # "" THEN properties.FLD_ZONE
                ELSE IF properties.zone # "" THEN properties.zone
                ELSE "Unknown"
        zoneInfo == getFloodZoneInfo(zone)
    IN [title |-> zone, riskLevel |-> zoneInfo.riskLevel,
        riskLabel |-> zoneInfo.riskLabel,
        elevation |-> properties.STATIC_BFE,
        warning |-> properties.SFHA_TF = "T"]

\* a flood feature is drawn and its popup built; the page also asks isSFHA
\* for the feature's zone
Flood_FeatureShown(properties) ==
    /\ ~zoneShown.shown
    /\ zoneShown' = [shown |-> TRUE, properties |-> properties,
                     style |-> styleFeature(properties),
                     popup |-> floodZone(properties),
                     sfha |-> isSFHA(properties.FLD_ZONE)]
    /\ UNCHANGED <<superseded, floodRequest, raced>>
    /\ UNCHANGED <<hostVars, refreshVars, floodVars, tribalVars, layerData,
                   warned, uiVars, currentRegion, contentVars>>

\* ====================================================== specifications
Init ==
    /\ mapInit = FALSE
    /\ layerControl = FALSE
    /\ overlayLayers = [n \in OverlayNames |-> 0]
    /\ controlLayers = <<>>
    /\ mapLayers = {}
    /\ viewport = InitialView
    /\ nextLayer = 0
    /\ thrown = FALSE
    /\ layer = [a \in RefreshAdapters |-> 0]
    /\ data = [a \in RefreshAdapters |-> 0]
    /\ refreshInterval = [a \in RefreshAdapters |-> 0]
    /\ liveTimers = [a \in RefreshAdapters |-> {}]
    /\ timerCount = [a \in RefreshAdapters |-> 0]
    /\ fetchCount = [a \in RefreshAdapters |-> 0]
    /\ pendingAdd = [a \in RefreshAdapters |-> {}]
    /\ pendingTick = [a \in RefreshAdapters |-> {}]
    /\ layerData = [l \in 1..MaxLayers |-> NoContents]
    /\ warned = [a \in RefreshAdapters |-> FALSE]
    /\ streamLayer = 0
    /\ pendingStream = FALSE
    /\ floodLayer = 0
    /\ currentBounds = NoBounds
    /\ moveendHandlers = 0
    /\ queryCount = 0
    /\ pendingQuery = {}
    /\ pendingFloodAdd = {}
    /\ tribalLayer = 0
    /\ tribalData = FALSE
    /\ pendingTribalAdd = {}
    /\ selectedFeature = NoFeature
    /\ featureStyle = DefaultStyles
    /\ clicked = <<>>
    /\ pointer = NoFeature
    /\ currentRegion = "pnw"
    /\ loader = Hidden
    /\ errors = {}
    /\ rejected = FALSE
    /\ clock = 0
    /\ alertResponse = NoResponse
    /\ alertLayer = NoAlertLayer
    /\ usgsResponse = NoUsgsResponse
    /\ gageFeatures = NotConverted
    /\ superseded = [a \in RefreshAdapters |-> {}]
    /\ floodRequest = NoRequest
    /\ raced = NoRace
    /\ zoneShown = NoZoneShown

\* pages that pass no region parameter
HostNext == \E c \in BOOLEAN : initMap(c, NoParam)

\* a refresh adapter's layer and timer life cycle
RefreshLifeNextOf(a) ==
        \/ \E v \in BOOLEAN, r \in BOOLEAN : AddToMap(a, v, r)
        \/ \E p \in pendingAdd[a] : AddResolved(a, p)
        \/ \E p \in pendingAdd[a] : AddFailed(a, p)
        \/ StartAutoRefresh(a)
        \/ StopAutoRefresh(a)
        \/ RemoveFromMap(a)

\* and the ticks of its timers
RefreshNextOf(a) ==
        \/ RefreshLifeNextOf(a)
        \/ \E t \in liveTimers[a] : TickStart(a, t)
        \/ \E id \in pendingTick[a] : TickResolved(a, id)
        \/ \E id \in pendingTick[a] : TickFailed(a, id)

RefreshNext == \E a \in RefreshAdapters : RefreshNextOf(a)

StreamNext ==
    \/ AddStreamNetworkToMap
    \/ StreamResolved
    \/ StreamFailed

\* the flood adapter's layer life cycle
FloodLifeNext ==
    \/ \E q \in pendingQuery : QueryResolved(q)
    \/ \E q \in pendingQuery : QueryFailed(q)
    \/ \E v \in BOOLEAN, d \in BOOLEAN : Flood_AddToMap(v, d)
    \/ Flood_RemoveFromMap

\* and its reloads as the page asks for them or the user moves the map
FloodNext ==
    \/ FloodLifeNext
    \/ LoadForCurrentView
    \/ \E v \in Views : MoveEnd(v)

\* the tribal adapter's layer life cycle
TribalLoadNext ==
    \E v \in BOOLEAN :
        \/ Tribal_AddToMap(v)
        \/ Tribal_LoadResolved(v)
        \/ Tribal_LoadFailed(v)
        \/ Tribal_RemoveFromMap

TribalNext ==
    \/ TribalLoadNext
    \/ \E t \in Tribes :
        \/ MouseOver(t)
        \/ MouseOut(t)
        \/ Click(t)
    \/ \E code \in Tribes \cup {"unknown"} : FocusTribe(code)
    \/ ClearSelection

\* every adapter alone on its embed page
RefreshUnused(a) == fetchCount[a] = 0 /\ timerCount[a] = 0
FloodUnused == queryCount = 0 /\ viewport = InitialView
TribalUnused == ~tribalData /\ pendingTribalAdd = {} /\ ~rejected

\* the alerts page and the rivers page, one refresh adapter on each (the
\* stream network of the rivers page is followed in SpecStream)
NextRefresh ==
    \/ HostNext
    \/ RefreshUnused("rivers") /\ RefreshNextOf("hazards")
    \/ RefreshUnused("hazards") /\ RefreshNextOf("rivers")
SpecRefresh == Init /\ [][NextRefresh]_vars

\* the alerts page or the rivers page when removeFromMap overtakes a load
TeardownNextOf(a) ==
    \/ \E v \in BOOLEAN, r \in BOOLEAN : AddToMap(a, v, r)
    \/ \E p \in pendingAdd[a] : AddResolved(a, p)
    \/ \E p \in pendingAdd[a] : AddFailed(a, p)
    \/ pendingAdd[a] = {} /\ RemoveFromMap(a)
    \/ RemoveFromMap_duringLoad(a)
NextTeardown ==
    \/ HostNext
    \/ RefreshUnused("rivers") /\ TeardownNextOf("hazards")
    \/ RefreshUnused("hazards") /\ TeardownNextOf("rivers")
SpecTeardown == Init /\ [][NextTeardown]_vars

\* the URLs queryFloodZones fetches
QueryNext ==
    \/ ~floodRequest.called /\ \E f \in ZoneFilters : Query_Called(f)
    \/ Query_Issued
SpecQuery == Init /\ [][QueryNext]_vars

\* the flood features a response can carry, one drawn
ZonesNext ==
    ~zoneShown.shown /\ \E properties \in FloodProperties :
                           Flood_FeatureShown(properties)
SpecZones == Init /\ [][ZonesNext]_vars

\* the rivers page loading its gages and its stream network
NextStream ==
    \/ HostNext
    \/ RefreshLifeNextOf("rivers")
    \/ StreamNext
SpecStream == Init /\ [][NextStream]_vars

\* a page that drives MapHost itself: its region calls, while the user
\* moves the map
RegionNext ==
    \/ \E c \in BOOLEAN, r \in RegionParams : initMap(c, r)
    \/ \E code \in RegionCodes : FocusRegion(code)
    \/ \E v \in Views : MoveEnd(v)
SpecRegion == Init /\ [][RegionNext]_vars

\* and its overlay calls
OverlayNext ==
    \/ HostNext
    \/ \E n \in PageNames, l \in PageLayers, v \in BOOLEAN : AddOverlay(n, l, v)
    \/ \E n \in PageNames \cup ProtoKeys : RemoveOverlay(n)
SpecOverlay == Init /\ [][OverlayNext]_vars

PageNext ==
    \/ \E c \in BOOLEAN, r \in RegionParams : initMap(c, r)
    \/ \E code \in RegionCodes : FocusRegion(code)
    \/ \E n \in PageNames, l \in PageLayers, v \in BOOLEAN : AddOverlay(n, l, v)
    \/ \E n \in PageNames \cup ProtoKeys : RemoveOverlay(n)

\* the flood page: the overlay is added visible, as by default (a hidden
\* overlay goes through its life cycle in SpecSolo)
NextFlood ==
    \/ HostNext
    \/ \E q \in pendingQuery : QueryResolved(q)
    \/ \E q \in pendingQuery : QueryFailed(q)
    \/ \E d \in BOOLEAN : Flood_AddToMap(TRUE, d)
    \/ Flood_RemoveFromMap
    \/ LoadForCurrentView
    \/ \E v \in Views : MoveEnd(v)

\* the flood page when the user moves the map during a load
NextRace ==
    \/ HostNext
    \/ \E q \in pendingQuery : QueryResolved(q)
    \/ \E q \in pendingQuery : QueryFailed(q)
    \/ \E v \in BOOLEAN, d \in BOOLEAN : Flood_AddToMap(v, d)
    \/ pendingQuery = {} /\ \E v \in Views : MoveEnd(v)
    \/ \E v \in Views : MoveEnd_duringLoad(v)
SpecRace == Init /\ [][NextRace]_vars
SpecFlood == Init /\ [][NextFlood]_vars

NextTribal == HostNext \/ TribalNext
SpecTribal == Init /\ [][NextTribal]_vars

\* any one of the four embed pages, each adapter going through the life
\* cycle of its layer (the ticks of a running timer are followed in
\* SpecRefresh, the stream network in SpecStream, map moves in SpecFlood,
\* territory selection in SpecTribal)
NextSolo ==
    \/ HostNext
    \/ /\ RefreshUnused("rivers") /\ FloodUnused /\ TribalUnused
       /\ RefreshLifeNextOf("hazards")
    \/ /\ RefreshUnused("hazards") /\ FloodUnused /\ TribalUnused
       /\ RefreshLifeNextOf("rivers")
    \/ /\ RefreshUnused("hazards") /\ RefreshUnused("rivers") /\ TribalUnused
       /\ FloodLifeNext
    \/ /\ RefreshUnused("hazards") /\ RefreshUnused("rivers") /\ FloodUnused
       /\ TribalLoadNext
SpecSolo == Init /\ [][NextSolo]_vars

\* what the alert layer shows over time
AlertsNext ==
    \/ Alerts_ClockTick
    \/ \E f \in AlertCollections : Alerts_Fetched(f)
    \/ Alerts_AddResolved
    \/ Alerts_TickResolved
SpecAlerts == Init /\ [][AlertsNext]_vars

\* what convertToGeoJSON makes of a USGS response
GagesNext ==
    \/ ~usgsResponse.got /\ \E r \in UsgsResponses : Gages_Fetched(r)
    \/ Gages_Converted
SpecGages == Init /\ [][GagesNext]_vars

Next ==
    \/ PageNext \/ RefreshNext \/ StreamNext \/ FloodNext \/ TribalNext
    \/ AlertsNext \/ GagesNext
    \/ \E a \in RefreshAdapters : RemoveFromMap_duringLoad(a)
    \/ QueryNext
    \/ ZonesNext
    \/ \E v \in Views : MoveEnd_duringLoad(v)
Spec == Init /\ [][Next]_vars


\* ============================================================== claims
LayersOnMapOf(a) == {l \in mapLayers : layerData[l].owner = a}
ControlEntries(name) == {i \in 1..Len(controlLayers) : controlLayers[i][2] = name}

\* C1: in the hazards and river-gage refresh loops, when the layer already
\* shows the result of a tick started later, the late result of an earlier
\* tick is discarded and the layer keeps the newer contents.
C1_StaleTickDiscarded ==
    [][\A a \in RefreshAdapters : \A id \in pendingTick[a] :
         (/\ TickResolved(a, id)
          /\ layer[a] # 0
          /\ layerData[layer[a]].by = "update"
          /\ layerData[layer[a]].id > id)
         => layerData'[layer[a]] = layerData[layer[a]]]_vars

\* C2: a failed refresh tick leaves the layer objects' contents, the
\* adapter's layer and cached data, the overlay registry, the layers on the
\* map, the layer control and the timers unchanged, so the layer still shows
\* the last successful fetch and the loop keeps running.
C2_FailedTickKeepsData ==
    [][\A a \in RefreshAdapters : \A id \in pendingTick[a] :
         TickFailed(a, id) =>
            /\ layerData' = layerData
            /\ layer' = layer
            /\ data' = data
            /\ overlayLayers' = overlayLayers
            /\ controlLayers' = controlLayers
            /\ mapLayers' = mapLayers
            /\ refreshInterval' = refreshInterval
            /\ liveTimers' = liveTimers]_vars

\* a tick failed while the adapter shows a fetched layer and its loop runs
C2_Witness ==
    \E a \in RefreshAdapters :
        /\ warned[a]
        /\ layer[a] # 0
        /\ layerData[layer[a]].id # 0
        /\ liveTimers[a] # {}

\* C3: each refresh adapter has at most one live interval timer, and it is
\* the one its handle names.
C3_AtMostOneTimer ==
    \A a \in RefreshAdapters :
        /\ Cardinality(liveTimers[a]) <= 1
        /\ liveTimers[a] \subseteq {refreshInterval[a]}

\* a second timer was created and the first one is no longer live
C3_Witness ==
    \E a \in RefreshAdapters :
        /\ timerCount[a] >= 2
        /\ liveTimers[a] = {timerCount[a]}
        /\ refreshInterval[a] = timerCount[a]

Pristine(a) ==
    /\ layer[a] = 0
    /\ data[a] = 0
    /\ refreshInterval[a] = 0
    /\ a = "rivers" => streamLayer = 0

\* C5: removeFromMap of a refresh adapter leaves its timer cancelled, its
\* overlay names out of the registry and its layer reference null, without
\* throwing; on an adapter that was never added it changes nothing.
C5_RemoveTearsDown ==
    \A a \in RefreshAdapters :
        LET r == Refresh_removeFromMap(a, RefreshState(a)) IN
        /\ r.timer.handle = 0
        /\ r.timer.live = {}
        /\ r.host.overlay[OverlayName(a)] = 0
        /\ r.layer = 0
        /\ a = "rivers" => r.stream = 0 /\ r.host.overlay["Streams"] = 0
        /\ ~r.host.thrown
        /\ Pristine(a) => r = RefreshState(a)

\* an adapter that created a layer and a timer has been removed
C5_Witness ==
    \E a \in RefreshAdapters :
        /\ \E l \in 1..nextLayer : layerData[l].owner = a
        /\ timerCount[a] >= 1
        /\ layer[a] = 0
        /\ data[a] = 0
        /\ liveTimers[a] = {}
        /\ overlayLayers[OverlayName(a)] = 0

\* C6: for each of the four adapters removeFromMap does not throw, and a
\* second removeFromMap right after the first changes nothing.
C6_RemoveIdempotent ==
    /\ \A a \in RefreshAdapters :
          LET r == Refresh_removeFromMap(a, RefreshState(a)) IN
          /\ ~r.host.thrown
          /\ Refresh_removeFromMap(a, r) = r
    /\ LET r == Flood_removeFromMap(FloodState) IN
          /\ ~r.host.thrown
          /\ Flood_removeFromMap(r) = r
    /\ LET r == Tribal_removeFromMap(TribalState) IN
          /\ ~r.host.thrown
          /\ Tribal_removeFromMap(r) = r
    /\ ~thrown

\* an adapter has been added and then removed: it created a layer, holds
\* none, and its overlay name is out of the registry
C6_Witness ==
    /\ \E l \in 1..nextLayer : layerData[l].owner = "flood"
    /\ floodLayer = 0
    /\ currentBounds = NoBounds
    /\ overlayLayers["FEMA Flood Zones"] = 0
    /\ moveendHandlers >= 1

\* C7: once the addToMap calls of a refresh adapter have completed, at most
\* one layer of the adapter is on the map and at most one layer-control entry
\* carries its overlay name.
C7_NoDoubleRegister ==
    \A a \in RefreshAdapters :
        pendingAdd[a] = {} =>
            /\ Cardinality(LayersOnMapOf(a)) <= 1
            /\ Cardinality(ControlEntries(OverlayName(a))) <= 1

\* every edge of b is less than 0.01 degree away from the same edge of a
AllEdgesWithin(a, b) ==
    \A i \in 1..4 : a[i] - b[i] < Threshold /\ b[i] - a[i] < Threshold

\* C8: with last-queried bounds B, loadForCurrentView on a viewport within
\* 0.01 degree of B on all four edges issues no query and keeps B; on any
\* other viewport it issues exactly one query.
C8_BoundsDebounce ==
    (mapInit /\ currentBounds # NoBounds) =>
        \A v \in Views :
            LET f == loadForCurrentView(FloodLoad, v) IN
            IF AllEdgesWithin(currentBounds, v)
            THEN f = FloodLoad
            ELSE /\ f.count = queryCount + 1
                 /\ f.pending = pendingQuery \cup {queryCount + 1}
                 /\ (queryCount + 1) \notin pendingQuery
                 /\ f.cur = v

\* a second query was issued after a pan, and a later pan to a viewport
\* less than 0.01 degree away was skipped by the registered handler
C8_Witness ==
    /\ moveendHandlers >= 1
    /\ queryCount >= 2
    /\ currentBounds # NoBounds
    /\ viewport # currentBounds
    /\ AllEdgesWithin(currentBounds, viewport)

\* C9: while no bounds are recorded, loadForCurrentView issues a query for
\* every viewport of an initialised map.
C9_FirstLoadProceeds ==
    (mapInit /\ currentBounds = NoBounds) =>
        \A v \in Views :
            LET f == loadForCurrentView(FloodLoad, v) IN
            /\ f.count = queryCount + 1
            /\ f.pending = pendingQuery \cup {queryCount + 1}
            /\ f.cur = v

\* the adapter was removed and a load has run since: bounds are recorded
\* again although the adapter holds no layer
C9_Witness ==
    /\ \E l \in 1..nextLayer : layerData[l].owner = "flood"
    /\ floodLayer = 0
    /\ currentBounds # NoBounds
    /\ queryCount >= 2

\* C10: while a layer is registered under 'FEMA Flood Zones' it is the
\* adapter's layer, and a successful reload keeps that object, keeps the
\* registration and puts the new result into it.
C10_ReloadInPlace ==
    /\ [](overlayLayers["FEMA Flood Zones"] # 0
            => overlayLayers["FEMA Flood Zones"] = floodLayer)
    /\ [][\A q \in pendingQuery :
            (QueryResolved(q) /\ overlayLayers["FEMA Flood Zones"] # 0) =>
                /\ floodLayer' = floodLayer
                /\ overlayLayers'["FEMA Flood Zones"] = floodLayer
                /\ layerData'[floodLayer] = Contents("flood", q, "update")]_vars

\* the registered layer shows the result of a reload
C10_Witness ==
    /\ floodLayer # 0
    /\ overlayLayers["FEMA Flood Zones"] = floodLayer
    /\ layerData[floodLayer].by = "update"

\* territories shown in the selected style by a selection state
SelectedShown(s) == {t \in Tribes : s.style[t] = "selected"}

\* C11: clicking territory a and then a different territory b (the pointer
\* leaving a and entering b in between, or not) leaves b recorded as
\* selected, b alone in the selected style and a in the default style.
C11_SingleSelection ==
    \A a \in Tribes : \A b \in Tribes \ {a} :
        LET s1 == click(Selection, a)
            direct == click(s1, b)
            moved == click(mouseover(mouseout(s1, a), b), b)
        IN /\ direct.selected = b
           /\ SelectedShown(direct) = {b}
           /\ direct.style[a] = "default"
           /\ moved = direct

\* the last two clicks hit different territories; the later one is selected
\* alone and the earlier one is back in the default style
C11_Witness ==
    /\ TribalShown
    /\ Len(clicked) >= 2
    /\ clicked[Len(clicked)] # clicked[Len(clicked) - 1]
    /\ selectedFeature = clicked[Len(clicked)]
    /\ SelectedShown(Selection) = {selectedFeature}
    /\ featureStyle[clicked[Len(clicked) - 1]] = "default"

\* C12: while the tribal layer is on the map at most one territory is in the
\* selected style, and it is the territory recorded in _selectedFeature.
C12_AtMostOneSelected ==
    TribalShown =>
        /\ Cardinality(SelectedShown(Selection)) <= 1
        /\ SelectedShown(Selection) \subseteq {selectedFeature}

\* C13: the mouseover and mouseout handlers of the recorded selected
\* territory change nothing, and a pointer step onto or off that territory
\* leaves every style and the recorded selection as they were.
C13_HoverKeepsSelected ==
    /\ [](\A t \in Tribes : selectedFeature = t =>
            /\ mouseover(Selection, t) = Selection
            /\ mouseout(Selection, t) = Selection)
    /\ [][\A t \in Tribes :
            ((MouseOver(t) \/ MouseOut(t)) /\ selectedFeature = t) =>
                /\ featureStyle' = featureStyle
                /\ selectedFeature' = selectedFeature]_vars

\* the pointer has left the territory that was clicked last, and that
\* territory is still selected and in the selected style
C13_Witness ==
    /\ TribalShown
    /\ clicked # <<>>
    /\ selectedFeature = clicked[Len(clicked)]
    /\ featureStyle[selectedFeature] = "selected"
    /\ pointer # selectedFeature

\* C14: in every alert collection the hazards adapter has rendered, at the
\* initial load or at a refresh, an alert whose expires instant lies strictly
\* before the instant its collection was fetched is not shown, and an alert
\* without an expires field is shown.
C14_ExpiredAlertsHidden ==
    alertLayer.made =>
        \A i \in 1..Len(alertLayer.features) :
            LET e == alertLayer.features[i] IN
            /\ (e.kind = "time" /\ e.at < alertLayer.at)
                   => i \notin alertLayer.shown
            /\ e.kind = "absent" => i \in alertLayer.shown

\* a refresh has rendered a collection holding an alert that expired before
\* the fetch and an alert without expires
C14_Witness ==
    /\ alertLayer.made
    /\ alertLayer.by = "update"
    /\ \E i, j \in 1..Len(alertLayer.features) :
        /\ alertLayer.features[i].kind = "time"
        /\ alertLayer.features[i].at < alertLayer.at
        /\ alertLayer.features[j].kind = "absent"
        /\ alertLayer.shown = {j}

\* the field of a feature that holds the reading of a parameter
FieldSet(feature, paramCode) ==
    IF paramCode = PARAMETER_CODES.discharge THEN feature.streamflow.set
    ELSE IF paramCode = PARAMETER_CODES.gageHeight
         THEN feature.gageHeight.set
         ELSE FALSE

\* C15: convertToGeoJSON makes exactly one feature for every distinct site
\* code of the response, and that feature carries a field for every
\* parameter series of the site that has a latest value.
C15_OneFeaturePerSite ==
    (gageFeatures.done /\ usgsResponse.has) =>
        LET ts == usgsResponse.timeSeries
            fs == gageFeatures.features
            sites == {ts[k].siteCode : k \in 1..Len(ts)}
        IN  /\ Len(fs) = Cardinality(sites)
            /\ \A c \in sites :
                   Cardinality({i \in 1..Len(fs) : fs[i].siteCode = c}) = 1
            /\ \A k \in 1..Len(ts) :
                   Len(ts[k].values) > 0 =>
                       \A i \in 1..Len(fs) :
                           fs[i].siteCode = ts[k].siteCode
                               => FieldSet(fs[i], ts[k].paramCode)

\* C16: focusRegion with a code whose lower-cased form is not a key of the
\* region table leaves the current region and the viewport as they were and
\* throws nothing.
C16_UnknownRegionNoOp ==
    \A code \in RegionCodes :
        ToLower[code] \notin Regions =>
            focusRegion(RegionState, code) = RegionState

\* overlay names under which layer l is registered
NamesOf(h, l) == {n \in OverlayNames : h.overlay[n] = l}

\* C17: addOverlay(name, L2) while name is registered to another layer L1
\* (and to no other name) leaves name registered to L2, L1 off the map and
\* no entry of the layer control holding L1.
C17_ReplaceSemantics ==
    \A n \in PageNames : \A l2 \in PageLayers : \A v \in BOOLEAN :
        LET l1 == overlayLayers[n]
            h == addOverlayLayer(Host, n, l2, v)
        IN (l1 # 0 /\ l1 # l2 /\ NamesOf(Host, l1) = {n}) =>
              /\ h.overlay[n] = l2
              /\ l1 \notin h.onmap
              /\ \A i \in 1..Len(h.control) : h.control[i][1] # l1

\* C18: removeOverlay with a name that has no entry in the overlay registry
\* leaves the registry, the layers on the map and the layer control as they
\* were and throws nothing.
C18_RemoveAbsentNoOp ==
    \A n \in PageNames \cup ProtoKeys :
        (n \notin OverlayNames \/ overlayLayers[n] = 0) =>
            removeOverlayLayer(Host, n) = Host

\* C19: when the fetch of an addToMap fails on an adapter that holds no
\* layer (and, for hazards and river gages, no timer handle), the adapter
\* still holds no layer afterwards, its overlay name is not registered and
\* none of its timers is live.
C19_FailedAddLeavesNothing ==
    [][/\ \A a \in RefreshAdapters : \A p \in pendingAdd[a] :
            (AddFailed(a, p) /\ layer[a] = 0 /\ refreshInterval[a] = 0) =>
                /\ layer'[a] = 0
                /\ overlayLayers'[OverlayName(a)] = 0
                /\ refreshInterval'[a] = 0
                /\ liveTimers'[a] = {}
       /\ \A q \in pendingQuery :
            (QueryFailed(q) /\ Waiters(q) # {} /\ floodLayer = 0) =>
                /\ floodLayer' = 0
                /\ overlayLayers'["FEMA Flood Zones"] = 0]_vars

\* the first addToMap of a refresh adapter has failed: the error was shown,
\* no layer object of the adapter exists, nothing is registered, no timer
\* was created
C19_Witness ==
    \E a \in RefreshAdapters :
        /\ ErrorMessage(a) \in errors
        /\ pendingAdd[a] = {}
        /\ \A l \in 1..nextLayer : layerData[l].owner # a
        /\ layer[a] = 0
        /\ overlayLayers[OverlayName(a)] = 0
        /\ timerCount[a] = 0

\* C20: a failed fetch inside addToMap rejects no promise and throws
\* nothing, its message is passed to showError, and MapHost's overlay
\* state is left as it was.
C20_FailureNotFatal ==
    [][/\ \A a \in RefreshAdapters : \A p \in pendingAdd[a] :
            AddFailed(a, p) =>
                /\ ~rejected' /\ ~thrown'
                /\ ErrorMessage(a) \in errors'
                /\ Host' = Host
       /\ \A q \in pendingQuery :
            (QueryFailed(q) /\ Waiters(q) # {} /\ floodLayer = 0) =>
                /\ ~rejected' /\ ~thrown'
                /\ "Failed to load flood zones" \in errors'
                /\ Host' = Host
       /\ \A v \in pendingTribalAdd :
            Tribal_LoadFailed(v) =>
                /\ ~rejected' /\ ~thrown'
                /\ "Failed to load Tribal boundaries" \in errors'
                /\ Host' = Host]_vars

\* C21: when removeFromMap has been called on the hazards or river-gage
\* adapter while the fetch of an addToMap was in flight, the later success of
\* that fetch registers no overlay and starts no refresh timer.
C21_TeardownSupersedes ==
    [][\A a \in RefreshAdapters : \A p \in pendingAdd[a] :
          (p.id \in superseded[a] /\ AddResolved(a, p)) =>
              /\ overlayLayers' = overlayLayers
              /\ liveTimers' = liveTimers]_vars

\* C22: a successful refresh tick changes nothing but the contents of the
\* adapter's current layer and the adapter's cached data: the overlay
\* registry, the layer control, the layers on the map, the adapter's layer
\* object, the contents of every other layer and the timers stay as they
\* were.
C22_TickChangesContentsOnly ==
    [][\A a \in RefreshAdapters : \A id \in pendingTick[a] :
         TickResolved(a, id) =>
            /\ overlayLayers' = overlayLayers
            /\ controlLayers' = controlLayers
            /\ mapLayers' = mapLayers
            /\ layer' = layer
            /\ refreshInterval' = refreshInterval
            /\ liveTimers' = liveTimers
            /\ \A l \in 1..MaxLayers :
                   l # layer[a] => layerData'[l] = layerData[l]
            /\ \A b \in RefreshAdapters \ {a} : data'[b] = data[b]]_vars

\* a tick has succeeded on an adapter whose layer is registered and on the
\* map and whose loop runs: the layer shows the tick's data
C22_Witness ==
    \E a \in RefreshAdapters :
        /\ layer[a] # 0
        /\ layerData[layer[a]] = Contents(a, data[a], "update")
        /\ overlayLayers[OverlayName(a)] = layer[a]
        /\ layer[a] \in mapLayers
        /\ refreshInterval[a] # 0

\* C23: init with a `region` URL parameter that is a key of the region table
\* starts the map on that region's centre and zoom and makes it the current
\* region; with a value that is not in the table the map starts on the
\* default centre and zoom and the current region is left as it was.
C23_RegionParam ==
    [][\A c \in BOOLEAN : \A r \in RegionParams :
          initMap(c, r) =>
              IF r \in Regions
              THEN viewport' = RegionView(r) /\ currentRegion' = r
              ELSE viewport' = InitialView /\ currentRegion' = currentRegion]_vars

\* text `part` occurs in text `whole`
Contains(whole, part) ==
    \E i \in 0..(Len(whole) - Len(part)) :
        SubSeq(whole, i + 1, i + Len(part)) = part

\* the pairs of a query string: its pieces between &, each cut at its first =
RECURSIVE SplitAt(_, _)
SplitAt(text, sep) ==
    IF \A i \in 1..Len(text) : text[i] # sep THEN <<text>>
    ELSE LET k == CHOOSE i \in 1..Len(text) :
                      text[i] = sep /\ \A j \in 1..(i - 1) : text[j] # sep
         IN <<SubSeq(text, 1, k - 1)>>
                \o SplitAt(SubSeq(text, k + 1, Len(text)), sep)

\* decoded values of the parameter `name` in a query string
ParamValues(query, name) ==
    LET pieces == SplitAt(query, "&") IN
    {DecodeText(SubSeq(pieces[i], 3, Len(pieces[i]))) :
        i \in {j \in 1..Len(pieces) :
                  /\ Len(pieces[j]) >= 2
                  /\ formDecode(pieces[j][1]) = name
                  /\ pieces[j][2] = "="}}

\* C24 (as stated): the query string issued for a non-empty zoneFilter
\* contains the text where=FLD_ZONE IN ('z1',...,'zn'), zones in list order.
C24_RawWhere ==
    (floodRequest.issued /\ floodRequest.filter.has
        /\ floodRequest.filter.zones # <<>>) =>
        Contains(floodRequest.url,
                 <<"where", "=">> \o whereClause(floodRequest.filter.zones))

\* C24 (amended): the query string issued for a non-empty zoneFilter carries
\* exactly one where parameter, whose form-decoded value is
\* FLD_ZONE IN ('z1',...,'zn') with the zones in list order; without a
\* zoneFilter the query string carries no where parameter.
C24_WhereParam ==
    floodRequest.issued =>
        LET list == floodRequest.filter.zones
            quoted == [i \in 1..Len(list) |-> <<"'", list[i], "'">>]
            expected == <<"FLD_ZONE", " ", "IN", " ", "(">>
                            \o Join(quoted, <<",">>) \o <<")">>
        IN  /\ (floodRequest.filter.has /\ list # <<>>) =>
                   ParamValues(floodRequest.url, "where") = {expected}
            /\ ~floodRequest.filter.has =>
                   /\ ParamValues(floodRequest.url, "where") = {}
                   /\ ~Contains(floodRequest.url, <<"where">>)

\* a query was issued for zoneFilter ['AE','X']
C24_Witness ==
    /\ floodRequest.issued
    /\ floodRequest.filter.has
    /\ floodRequest.filter.zones = <<"AE", "X">>
    /\ Contains(floodRequest.url, <<"where", "=", "FLD_ZONE", "+", "IN">>)

\* C25: two flood queries were in flight at once for bounds that differ
\* beyond the tolerance and both succeeded: once both have resolved, the
\* layer holds the result of the later-issued one, the query for the recorded
\* last-queried bounds, whichever response arrived first.
C25_LaterBoundsWin ==
    (/\ raced # NoRace
     /\ ~boundsEqual(raced.firstBounds, raced.secondBounds)
     /\ queryCount = raced.second
     /\ pendingQuery = {}
     /\ errors = {}
     /\ floodLayer # 0) =>
        /\ currentBounds = raced.secondBounds
        /\ layerData[floodLayer].owner = "flood"
        /\ layerData[floodLayer].id = raced.second

\* C26: after removeFromMap has returned (no layer, no last-queried bounds,
\* nothing in flight) and before addToMap is called again, a moveend issues no
\* upstream query and creates no layer: getLayer() stays null and the
\* last-queried bounds stay unset.
C26_NoReloadAfterRemove ==
    [][\A v \in Views :
        (/\ MoveEnd(v)
         /\ currentBounds = NoBounds
         /\ floodLayer = 0
         /\ pendingQuery = {}
         /\ pendingFloodAdd = {}) =>
            /\ queryCount' = queryCount
            /\ pendingQuery' = {}
            /\ currentBounds' = NoBounds
            /\ floodLayer' = 0]_vars

\* C27: whenever no flood load is in flight and getLayer() is non-null, that
\* layer is the one MapHost holds under 'FEMA Flood Zones', also when the
\* initial load failed and a later moveend reload succeeded.
C27_LayerIsRegistered ==
    (pendingQuery = {} /\ pendingFloodAdd = {} /\ floodLayer # 0) =>
        overlayLayers["FEMA Flood Zones"] = floodLayer

\* C28: however many moveend handlers the addToMap calls have registered, in
\* every reachable state one moveend, to whatever view, issues at most one
\* upstream query: the first handler that queries records the bounds and the
\* handlers after it skip.
C28_OneQueryPerMoveend ==
    \A v \in Views :
        LET f == fireMoveend(moveendHandlers, FloodLoad, v) IN
        /\ f.count <= queryCount + 1
        /\ Cardinality(f.pending \ pendingQuery) <= 1
        /\ f.count = queryCount + 1 => f.cur = v

\* two handlers are registered and the last moveend issued one query, which
\* is in flight
C28_Witness ==
    /\ moveendHandlers >= 2
    /\ pendingFloodAdd = {}
    /\ viewport # InitialView
    /\ currentBounds = viewport
    /\ queryCount \in pendingQuery
    /\ Cardinality(pendingQuery) = 1

\* C29: while any adapter load is in flight (an addToMap of a refresh adapter,
\* the stream network, a flood query, the tribal data) the shared loading
\* indicator is visible: a load that completes while another one is pending
\* does not hide it.
C29_LoaderWhileLoading ==
    (\/ \E a \in RefreshAdapters : pendingAdd[a] # {}
     \/ pendingStream
     \/ pendingQuery # {}
     \/ pendingTribalAdd # {}) =>
        loader # Hidden

\* C30: the flood-zone classifications agree: for every zone code of the
\* enumeration, a zone isSFHA accepts has the popup risk tier 'high', and the
\* zone has a colour of its own in ZONE_COLORS and an entry of its own in the
\* popup's table, not the default colour or the 'Unknown' fallback.
C30_ZoneTablesAgree ==
    (zoneShown.shown /\ zoneShown.properties.FLD_ZONE \in ZoneEnumeration) =>
        /\ zoneShown.sfha => zoneShown.popup.riskLevel = "high"
        /\ zoneShown.style.color # ZONE_COLORS["default"]
        /\ zoneShown.popup.riskLabel # "Unknown"

====
